---- MODULE Spec2Model ----
(***************************************************************************)
(* Model of the Gluon Estimator training loop                              *)
(* (python/mxnet/gluon/contrib/estimator/estimator.py): argument checks of *)
(* fit, preparation and categorisation of the event handlers, and the      *)
(* dispatch of the six lifecycle events, one handler callback per step.    *)
(***************************************************************************)
EXTENDS Integers, Sequences, FiniteSets, TLC

\* ------------------------------------------------------------------ bounds
\* largest epochs= argument tried
MaxEpochs == 2
\* largest batches= argument tried
MaxBatches == 3
\* largest number of batches the training DataLoader yields per iteration
MaxK == 3

\* Python's None for the integer arguments epochs / batches
None == 0 - 1
\* a train_data argument that is no DataLoader
NotLoader == 0 - 1

\* counters of the stopping handler only matter up to the largest limit
LimitCap == (IF MaxEpochs > MaxBatches THEN MaxEpochs ELSE MaxBatches) + 1
\* history counters saturate above every count a terminating run can reach
HistCap == MaxEpochs * MaxK + MaxBatches + 2

Sat(n, cap) == IF n < cap THEN n + 1 ELSE n

\* ------------------------------------------------------------------ metrics
train_metrics == <<"training accuracy", "training loss">>
val_metrics == <<"validation training accuracy", "validation training loss">>
ForeignMetrics == <<"foreign accuracy">>

Range(s) == {s[j] : j \in 1..Len(s)}

\* ------------------------------------------------------------------ handlers
Phases == {"TrainBegin", "EpochBegin", "BatchBegin", "BatchEnd", "EpochEnd", "TrainEnd"}

\* A handler object.  origin = 0: constructed by the caller; origin = n > 0:
\* constructed by _prepare_default_handlers.  behaviour names what its
\* callbacks do; the counters are the handler's own attributes.
Handler(cls, has_priority, priority, caps, behaviour, tm, vm, origin) ==
    [cls |-> cls, has_priority |-> has_priority, priority |-> priority,
     caps |-> caps, behaviour |-> behaviour,
     train_metrics |-> tm, val_metrics |-> vm, origin |-> origin,
     max_epoch |-> None, max_batch |-> None,
     current_batch |-> 0, current_epoch |-> 0, stop_training |-> FALSE]

\* priorities of the stock handler classes
MetricPriority == 0 - 1000
ValidationPriority == 0 - 1000
LoggingPriority == 1000

StoppingHandler(me, mb, origin) ==
    [Handler("StoppingHandler", FALSE, 0, {"TrainBegin", "BatchEnd", "EpochEnd"},
             "stopping", <<>>, <<>>, origin)
        EXCEPT !.max_epoch = me, !.max_batch = mb]

MetricHandler(tm, origin) ==
    Handler("MetricHandler", TRUE, MetricPriority, {"EpochBegin", "BatchEnd"},
            "none", tm, <<>>, origin)

ValidationHandler(vm, origin) ==
    Handler("ValidationHandler", TRUE, ValidationPriority,
            {"TrainBegin", "BatchEnd", "EpochEnd"}, "none", <<>>, vm, origin)

LoggingHandler(tm, vm, origin) ==
    Handler("LoggingHandler", TRUE, LoggingPriority, Phases, "none", tm, vm, origin)

\* user-defined handlers
\* signals stop whenever it likes, at batch end and at epoch end
AnyStopHandler ==
    Handler("Custom", FALSE, 0, {"BatchBegin", "BatchEnd", "EpochEnd", "TrainEnd"},
            "any", <<>>, <<>>, 0)
\* signals stop on the 2nd batch of every epoch
SecondBatchHandler ==
    Handler("Custom", TRUE, 5, {"EpochBegin", "BatchEnd"}, "second", <<>>, <<>>, 0)
\* a metric handler bound to metrics the estimator does not know
ForeignMetricHandler == MetricHandler(ForeignMetrics, 0)

\* the handler lists a caller passes as event_handlers
UserLists ==
    { <<>>,
      <<MetricHandler(train_metrics, 0)>>,
      <<ValidationHandler(val_metrics, 0)>>,
      <<LoggingHandler(train_metrics, val_metrics, 0)>>,
      <<StoppingHandler(1, None, 0)>>,
      <<AnyStopHandler>>,
      <<SecondBatchHandler>>,
      <<ForeignMetricHandler>>,
      <<LoggingHandler(train_metrics, val_metrics, 0), ValidationHandler(val_metrics, 0)>>,
      <<LoggingHandler(train_metrics, val_metrics, 0), SecondBatchHandler,
        MetricHandler(train_metrics, 0), ValidationHandler(val_metrics, 0)>> }

\* ------------------------------------------------------------------ fit: argument checks
\* Python truth value of an int-or-None argument: `not x`
Not(x) == x = None \/ x = 0

\* line 314: isinstance(train_data, DataLoader)
IsDataLoader(td) == td # NotLoader

\* line 320: the condition under which fit raises ValueError
IterationCheckFails(e, b) == Not(e) = Not(b)

\* ------------------------------------------------------------------ _prepare_default_handlers
\* any(isinstance(handler, cls) for handler in event_handlers)
HasInstance(event_handlers, cls) ==
    \E j \in 1..Len(event_handlers) : event_handlers[j].cls = cls

\* _check_event_handlers: None becomes a new empty list, a list is kept
CheckEventHandlers(given, event_handlers) ==
    IF given THEN event_handlers ELSE <<>>

\* lines 379-380: the stopping handler is appended unconditionally
AddStopping(added, me, mb, n) == Append(added, StoppingHandler(me, mb, n))

\* faulty variant of AddMetric: the caller's handlers are not looked at
AddMetricAlways(added, event_handlers, n) ==
    Append(added, MetricHandler(train_metrics, n))

\* lines 382-383
AddMetric(added, event_handlers, n) ==
    IF ~HasInstance(event_handlers, "MetricHandler")
    THEN Append(added, MetricHandler(train_metrics, n))
    ELSE added

\* faulty variant of ValMetricsBinding: val_data is not looked at
ValMetricsBindingIgnoresData(vd, event_handlers) ==
    IF ~HasInstance(event_handlers, "ValidationHandler") THEN "val_metrics" ELSE "unbound"

\* lines 385-395: what the local name val_metrics is bound to afterwards
ValMetricsBinding(vd, event_handlers) ==
    IF ~HasInstance(event_handlers, "ValidationHandler")
    THEN (IF vd THEN "val_metrics" ELSE "empty")
    ELSE "unbound"

\* lines 385-392
AddValidation(added, vd, event_handlers, n) ==
    IF ~HasInstance(event_handlers, "ValidationHandler") /\ vd
    THEN Append(added, ValidationHandler(val_metrics, n))
    ELSE added

\* line 397: a default LoggingHandler is wanted
WantsLogging(event_handlers) == ~HasInstance(event_handlers, "LoggingHandler")

\* lines 398-399, reached with val_metrics bound
AddLogging(added, binding, n) ==
    Append(added, LoggingHandler(train_metrics,
                                 IF binding = "val_metrics" THEN val_metrics ELSE <<>>, n))

\* faulty variant of MixingHandlers: the metric references are never checked
MixingHandlersNever(event_handlers, added) == FALSE

\* line 403: event_handlers and added_default_handlers
MixingHandlers(event_handlers, added) == event_handlers # <<>> /\ added # <<>>

\* line 414
known_metrics == Range(train_metrics) \cup Range(val_metrics)

\* _check_handler_metric_ref: the handler references only known metrics
CheckHandlerMetricRef(handler, known) ==
    Range(handler.train_metrics) \cup Range(handler.val_metrics) \subseteq known

\* line 418: key=lambda handler: getattr(handler, 'priority', 0)
SortKey(handler) == IF handler.has_priority THEN handler.priority ELSE 0

\* faulty variant of InsertByKey: an unstable sort, a handler is put before
\* the handlers of equal priority registered earlier
RECURSIVE InsertByKeyBeforeEqual(_, _)
InsertByKeyBeforeEqual(sorted, h) ==
    IF sorted = <<>> THEN <<h>>
    ELSE IF SortKey(Head(sorted)) < SortKey(h)
         THEN <<Head(sorted)>> \o InsertByKeyBeforeEqual(Tail(sorted), h)
         ELSE <<h>> \o sorted

\* list.sort is stable: insert after every element whose key is not larger
RECURSIVE InsertByKey(_, _)
InsertByKey(sorted, h) ==
    IF sorted = <<>> THEN <<h>>
    ELSE IF SortKey(Head(sorted)) <= SortKey(h)
         THEN <<Head(sorted)>> \o InsertByKey(Tail(sorted), h)
         ELSE <<h>> \o sorted

\* faulty variant of SortHandlers: the list is left in registration order
SortHandlersUnsorted(hs) == hs

RECURSIVE SortHandlers(_)
SortHandlers(hs) ==
    IF hs = <<>> THEN <<>>
    ELSE InsertByKey(SortHandlers(SubSeq(hs, 1, Len(hs) - 1)), hs[Len(hs)])

\* The whole of _prepare_default_handlers.  status is "ok" when it returns;
\* otherwise the exception it raises.  event_handlers is the list object as
\* the call leaves it, added the local added_default_handlers.
PrepareDefaultHandlers(vd, given, arg, me, mb, n) ==
    LET eh      == CheckEventHandlers(given, arg)
        a1      == AddStopping(<<>>, me, mb, n)
        a2      == AddMetric(a1, eh, n)
        binding == ValMetricsBinding(vd, eh)
        a3      == AddValidation(a2, vd, eh, n)
    IN  IF WantsLogging(eh) /\ binding = "unbound"
        THEN [status |-> "UnboundLocalError", event_handlers |-> eh,
              added |-> a3, warned |-> FALSE]
        ELSE
        LET a4       == IF WantsLogging(eh) THEN AddLogging(a3, binding, n) ELSE a3
            mixing   == MixingHandlers(eh, a4)
            extended == eh \o a4
        IN  IF mixing /\ \E j \in 1..Len(extended) :
                             ~CheckHandlerMetricRef(extended[j], known_metrics)
            THEN [status |-> "ValueError", event_handlers |-> extended,
                  added |-> a4, warned |-> TRUE]
            ELSE [status |-> "ok", event_handlers |-> SortHandlers(extended),
                  added |-> a4, warned |-> mixing]

\* ------------------------------------------------------------------ _categorize_handlers
\* the handlers (by position in event_handlers) that implement a capability
CategorizeHandlers(event_handlers, cap) ==
    LET F[j \in 0..Len(event_handlers)] ==
            IF j = 0 THEN <<>>
            ELSE IF cap \in event_handlers[j].caps THEN Append(F[j - 1], j)
                 ELSE F[j - 1]
    IN  F[Len(event_handlers)]

\* ------------------------------------------------------------------ handler callbacks
\* What one callback of a handler does: the handler afterwards and the value
\* it returns (the stop signal at batch end and epoch end; None counts FALSE).
\* me, mb are the estimator's max_epoch and max_batch, read through the
\* estimator reference every callback receives.
StoppingCallback(h, phase, me, mb) ==
    CASE phase = "TrainBegin" ->
            {[h |-> [h EXCEPT !.max_epoch = me, !.max_batch = mb,
                              !.current_batch = 0, !.current_epoch = 0],
              ret |-> FALSE]}
      [] phase = "BatchEnd" ->
            LET n    == Sat(h.current_batch, LimitCap)
                stop == h.stop_training \/ (h.max_batch # None /\ n = h.max_batch)
            IN  {[h |-> [h EXCEPT !.current_batch = n, !.stop_training = stop],
                  ret |-> stop]}
      [] phase = "EpochEnd" ->
            LET n    == Sat(h.current_epoch, LimitCap)
                stop == h.stop_training \/ (h.max_epoch # None /\ n = h.max_epoch)
            IN  {[h |-> [h EXCEPT !.current_epoch = n, !.stop_training = stop],
                  ret |-> stop]}
      [] OTHER -> {[h |-> h, ret |-> FALSE]}

SecondBatchCallback(h, phase) ==
    CASE phase = "EpochBegin" -> {[h |-> [h EXCEPT !.current_batch = 0], ret |-> FALSE]}
      [] phase = "BatchEnd" ->
            LET n == Sat(h.current_batch, LimitCap)
            IN  {[h |-> [h EXCEPT !.current_batch = n], ret |-> (n = 2)]}
      [] OTHER -> {[h |-> h, ret |-> FALSE]}

HandlerOutcomes(h, phase, me, mb) ==
    CASE h.behaviour = "stopping" -> StoppingCallback(h, phase, me, mb)
      [] h.behaviour = "second" -> SecondBatchCallback(h, phase)
      [] h.behaviour = "any" ->
            IF phase \in {"BatchEnd", "EpochEnd"}
            THEN {[h |-> h, ret |-> r] : r \in BOOLEAN}
            ELSE {[h |-> h, ret |-> FALSE]}
      [] OTHER -> {[h |-> h, ret |-> FALSE]}

\* any(batch_end_result) / any(epoch_end_result)
AnySignal(result) == \E j \in 1..Len(result) : result[j]

\* faulty variant of LoopExhausted: the loop over the handlers is left at the
\* first true stop signal
LoopExhaustedOrSignalled(list, idx, result) == idx > Len(list) \/ AnySignal(result)

\* lines 356 and 365: `for handler in batch_end` / `for handler in epoch_end`
\* ends when the list is exhausted, whatever the handlers returned so far
LoopExhausted(list, idx, result) == idx > Len(list)

\* faulty variant of AfterBatchEnd: a stop signal at batch end ends training
AfterBatchEndEndsTraining(result) == IF AnySignal(result) THEN "train_end" ELSE "batch_iter"

\* faulty variants of AfterBatchEnd: the stop signals are ignored; the batch
\* loop is left only when every handler signals stop
AfterBatchEndNeverBreaks(result) == "batch_iter"
AfterBatchEndAll(result) ==
    IF \A j \in 1..Len(result) : result[j] THEN "epoch_end" ELSE "batch_iter"

\* lines 360-361: where the dispatcher goes after the batch-end handlers
AfterBatchEnd(result) == IF AnySignal(result) THEN "epoch_end" ELSE "batch_iter"

\* faulty variants of AfterEpochEnd: the next epoch starts at its batch loop;
\* the stop signals are ignored; the epoch loop is left only when every
\* handler signals stop
AfterEpochEndSkipsEpochBegin(result) ==
    IF AnySignal(result) THEN "train_end" ELSE "batch_iter"
AfterEpochEndNeverBreaks(result) == "epoch_begin"
AfterEpochEndAll(result) ==
    IF \A j \in 1..Len(result) : result[j] THEN "train_end" ELSE "epoch_begin"

\* lines 368-369: where the dispatcher goes after the epoch-end handlers
AfterEpochEnd(result) == IF AnySignal(result) THEN "train_end" ELSE "epoch_begin"

\* ------------------------------------------------------------------ state
VARIABLES
    pc,                 \* position of the dispatcher inside fit
    err,                \* the exception fit raised, "" if none
    caller_list,        \* the caller's event_handlers list before the call
    given,              \* event_handlers was passed (not None)
    aliased,            \* the caller's list is the list object fit works on
    train_data,         \* batches the training DataLoader yields, or NotLoader
    val_data,           \* truth value of the val_data argument (line 387)
    epochs, batches,    \* the arguments of fit
    max_epoch, max_batch,   \* estimator attributes set by fit
    user_handlers,      \* the caller's handlers as _prepare_default_handlers saw them
    added_default_handlers,
    warned,             \* the warning of line 410 was emitted
    event_handlers,     \* the list fit works on
    train_begin, epoch_begin, batch_begin, batch_end, epoch_end, train_end,
    hidx,               \* position in the handler list being iterated
    i,                  \* index of the current batch in enumerate(train_data)
    batch_end_result, epoch_end_result,
    invoked,            \* handlers called so far in the current phase
    cnt,                \* completed phases of this fit call, by kind
    other_stop,         \* a handler other than the default stopping handler signalled stop
    batch_stop,         \* the batch loop of the current epoch was abandoned
    epoch_stop,         \* the epoch loop was terminated
    \* --- the trainer and one fit_batch call
    trainer_steps,      \* calls of trainer.step so far in this fit call
    contexts,           \* len(self.context): the shards a batch is split into
    batch_size,         \* train_batch[0].shape[batch_axis]
    fb_pc,              \* position inside fit_batch
    fb_trace,           \* what fit_batch did so far, in order
    recording,          \* inside the autograd.record() scope
    step_size,          \* the argument of the last trainer.step
    \* --- handler exceptions and repeated calls
    raised_at,          \* the phase a handler callback raised in, "" if none
    calls,              \* fit calls that have returned
    first,              \* the caller's list before, and the final handlers of, the first call
    \* --- the metric objects, and one evaluate call
    store,              \* the metric objects: store[id] is the state of object id
    est_train, est_val, \* self._train_metrics, self._val_metrics (object ids)
    ev_pc,              \* position inside evaluate
    ev_data,            \* batches val_data yields, or NotLoader
    ev_metrics,         \* the val_metrics argument (object ids)
    ev_j,               \* loop index inside evaluate
    ev_trace,           \* what evaluate did so far, in order
    ev_store0           \* the metric objects as they were at the call

lists == <<train_begin, epoch_begin, batch_begin, batch_end, epoch_end, train_end>>
args == <<caller_list, given, aliased, train_data, val_data, epochs, batches,
          max_epoch, max_batch, user_handlers, added_default_handlers, warned>>
ghost == <<cnt, other_stop, batch_stop, epoch_stop>>
bvars == <<contexts, batch_size, fb_pc, fb_trace, recording, step_size>>
rvars == <<raised_at, calls, first>>
evars == <<store, est_train, est_val, ev_pc, ev_data, ev_metrics, ev_j, ev_trace, ev_store0>>
\* what the dispatcher steps other than fit_batch leave alone
ext == <<trainer_steps, bvars, rvars, evars>>
fitvars == <<pc, err, args, event_handlers, lists, hidx, i,
             batch_end_result, epoch_end_result, invoked, ghost>>
vars == <<fitvars, ext>>

ZeroCnt == [tb |-> 0, eb |-> 0, bb |-> 0, fb |-> 0, be |-> 0, ee |-> 0, te |-> 0]

\* the arguments a caller may pass
EpochArgs == {None} \cup 0..MaxEpochs
BatchArgs == {None} \cup 0..MaxBatches
TrainDataArgs == {NotLoader} \cup 0..MaxK
\* a caller that calls fit again repeats the arguments of its first call
Repeated(values, x) == IF calls = 0 THEN values ELSE {x}

\* fit has not been called: the caller holds one of `user_lists`, or passes None
FitInit(user_lists) ==
    /\ pc = "idle"
    /\ err = ""
    /\ \E g \in BOOLEAN :
          /\ given = g
          /\ caller_list \in (IF g THEN user_lists ELSE {<<>>})
    /\ aliased = FALSE
    /\ train_data = 0 /\ val_data = FALSE
    /\ epochs = None /\ batches = None
    /\ max_epoch = None /\ max_batch = None
    /\ user_handlers = <<>> /\ added_default_handlers = <<>>
    /\ warned = FALSE
    /\ event_handlers = <<>>
    /\ train_begin = <<>> /\ epoch_begin = <<>> /\ batch_begin = <<>>
    /\ batch_end = <<>> /\ epoch_end = <<>> /\ train_end = <<>>
    /\ hidx = 1 /\ i = 0
    /\ batch_end_result = <<>> /\ epoch_end_result = <<>>
    /\ invoked = <<>>
    /\ cnt = ZeroCnt
    /\ other_stop = FALSE /\ batch_stop = FALSE /\ epoch_stop = FALSE
    /\ trainer_steps = 0
    /\ fb_pc = "idle" /\ fb_trace = <<>> /\ recording = FALSE /\ step_size = 0
    /\ raised_at = "" /\ calls = 0
    /\ first = [list |-> <<>>, final |-> <<>>]

\* no estimator has been constructed, evaluate has not been called
EvalInit ==
    /\ store = <<>> /\ est_train = <<>> /\ est_val = <<>>
    /\ ev_pc = "new" /\ ev_data = 0 /\ ev_metrics = <<>> /\ ev_j = 0
    /\ ev_trace = <<>> /\ ev_store0 = <<>>

\* an estimator on one context, batches of one sample
Init ==
    /\ FitInit(UserLists)
    /\ contexts = 1 /\ batch_size = 1
    /\ EvalInit

\* ------------------------------------------------------------------ fit, lines 314-333
Raise(e) ==
    /\ pc' = "error"
    /\ err' = e
    /\ UNCHANGED <<lists, hidx, i, batch_end_result, epoch_end_result, invoked, ghost>>

Fit ==
    /\ pc = "idle"
    /\ \E td \in Repeated(TrainDataArgs, train_data), vd \in Repeated(BOOLEAN, val_data),
          e \in Repeated(EpochArgs, epochs), b \in Repeated(BatchArgs, batches) :
          /\ train_data' = td /\ val_data' = vd /\ epochs' = e /\ batches' = b
          /\ IF ~IsDataLoader(td)
             THEN /\ Raise("ValueError: train_data")
                  /\ UNCHANGED <<max_epoch, max_batch, user_handlers, aliased,
                                 added_default_handlers, warned, event_handlers>>
             ELSE IF IterationCheckFails(e, b)
             THEN /\ Raise("ValueError: iteration")
                  /\ UNCHANGED <<max_epoch, max_batch, user_handlers, aliased,
                                 added_default_handlers, warned, event_handlers>>
             ELSE LET r == PrepareDefaultHandlers(vd, given, caller_list, e, b, calls + 1)
                  IN  /\ max_epoch' = e /\ max_batch' = b
                      /\ user_handlers' = CheckEventHandlers(given, caller_list)
                      /\ aliased' = (given /\ caller_list # <<>>)
                      /\ added_default_handlers' = r.added
                      /\ warned' = r.warned
                      /\ event_handlers' = r.event_handlers
                      /\ IF r.status = "ok"
                         THEN /\ train_begin' = CategorizeHandlers(r.event_handlers, "TrainBegin")
                              /\ epoch_begin' = CategorizeHandlers(r.event_handlers, "EpochBegin")
                              /\ batch_begin' = CategorizeHandlers(r.event_handlers, "BatchBegin")
                              /\ batch_end' = CategorizeHandlers(r.event_handlers, "BatchEnd")
                              /\ epoch_end' = CategorizeHandlers(r.event_handlers, "EpochEnd")
                              /\ train_end' = CategorizeHandlers(r.event_handlers, "TrainEnd")
                              /\ pc' = "train_begin" /\ err' = ""
                              /\ hidx' = 1 /\ invoked' = <<>>
                              /\ UNCHANGED <<i, batch_end_result, epoch_end_result, ghost>>
                         ELSE Raise(r.status)
    /\ UNCHANGED <<caller_list, given>>
    /\ UNCHANGED ext

\* ------------------------------------------------------------------ fit, lines 335-373
\* one callback: handler number hidx of the list being iterated
Outcomes(list, phase) ==
    HandlerOutcomes(event_handlers[list[hidx]], phase, max_epoch, max_batch)

IsDefaultStopping(h) == h.cls = "StoppingHandler" /\ h.origin > 0

\* lines 338-339
TrainBeginHandler ==
    /\ pc = "train_begin" /\ hidx <= Len(train_begin)
    /\ \E o \in Outcomes(train_begin, "TrainBegin") :
          event_handlers' = [event_handlers EXCEPT ![train_begin[hidx]] = o.h]
    /\ invoked' = Append(invoked, train_begin[hidx])
    /\ hidx' = hidx + 1
    /\ UNCHANGED <<pc, err, args, lists, i, batch_end_result, epoch_end_result, ghost>>
    /\ UNCHANGED ext

\* line 341: the train-begin loop is exhausted, the epoch loop is entered
TrainBeginExit ==
    /\ pc = "train_begin" /\ hidx > Len(train_begin)
    /\ pc' = "epoch_begin" /\ hidx' = 1 /\ invoked' = <<>>
    /\ cnt' = [cnt EXCEPT !.tb = Sat(@, HistCap)]
    /\ UNCHANGED <<err, args, event_handlers, lists, i, batch_end_result,
                   epoch_end_result, other_stop, batch_stop, epoch_stop>>
    /\ UNCHANGED ext

\* lines 343-344
EpochBeginHandler ==
    /\ pc = "epoch_begin" /\ hidx <= Len(epoch_begin)
    /\ \E o \in Outcomes(epoch_begin, "EpochBegin") :
          event_handlers' = [event_handlers EXCEPT ![epoch_begin[hidx]] = o.h]
    /\ invoked' = Append(invoked, epoch_begin[hidx])
    /\ hidx' = hidx + 1
    /\ UNCHANGED <<pc, err, args, lists, i, batch_end_result, epoch_end_result, ghost>>
    /\ UNCHANGED ext

\* line 346: a new iteration over train_data starts
EpochBeginExit ==
    /\ pc = "epoch_begin" /\ hidx > Len(epoch_begin)
    /\ pc' = "batch_iter" /\ i' = 0
    /\ cnt' = [cnt EXCEPT !.eb = Sat(@, HistCap)]
    /\ batch_stop' = FALSE
    /\ UNCHANGED <<err, args, event_handlers, lists, hidx, batch_end_result,
                   epoch_end_result, invoked, other_stop, epoch_stop>>
    /\ UNCHANGED ext

\* line 346: the iterator yields batch number i, or is exhausted (line 364)
BatchIter ==
    /\ pc = "batch_iter"
    /\ IF i < train_data
       THEN /\ pc' = "batch_begin"
            /\ UNCHANGED epoch_end_result
       ELSE /\ pc' = "epoch_end"
            /\ epoch_end_result' = <<>>
    /\ hidx' = 1 /\ invoked' = <<>>
    /\ UNCHANGED <<err, args, event_handlers, lists, i, batch_end_result, ghost>>
    /\ UNCHANGED ext

\* lines 348-349
BatchBeginHandler ==
    /\ pc = "batch_begin" /\ hidx <= Len(batch_begin)
    /\ \E o \in Outcomes(batch_begin, "BatchBegin") :
          event_handlers' = [event_handlers EXCEPT ![batch_begin[hidx]] = o.h]
    /\ invoked' = Append(invoked, batch_begin[hidx])
    /\ hidx' = hidx + 1
    /\ UNCHANGED <<pc, err, args, lists, i, batch_end_result, epoch_end_result, ghost>>
    /\ UNCHANGED ext

BatchBeginExit ==
    /\ pc = "batch_begin" /\ hidx > Len(batch_begin)
    /\ pc' = "fit_batch"
    /\ cnt' = [cnt EXCEPT !.bb = Sat(@, HistCap)]
    /\ UNCHANGED <<err, args, event_handlers, lists, hidx, i, batch_end_result,
                   epoch_end_result, invoked, other_stop, batch_stop, epoch_stop>>
    /\ UNCHANGED ext

\* lines 351-355: fit_batch runs on the batch, batch_end_result is emptied
FitBatch ==
    /\ pc = "fit_batch"
    /\ pc' = "batch_end" /\ hidx' = 1 /\ invoked' = <<>>
    /\ batch_end_result' = <<>>
    /\ cnt' = [cnt EXCEPT !.fb = Sat(@, HistCap)]
    /\ UNCHANGED <<err, args, event_handlers, lists, i, epoch_end_result,
                   other_stop, batch_stop, epoch_stop>>
    /\ trainer_steps' = Sat(trainer_steps, HistCap)
    /\ UNCHANGED <<bvars, rvars, evars>>

\* lines 356-358
BatchEndHandler ==
    /\ pc = "batch_end" /\ ~LoopExhausted(batch_end, hidx, batch_end_result)
    /\ \E o \in Outcomes(batch_end, "BatchEnd") :
          /\ event_handlers' = [event_handlers EXCEPT ![batch_end[hidx]] = o.h]
          /\ batch_end_result' = Append(batch_end_result, o.ret)
          /\ other_stop' = (other_stop \/
                (o.ret /\ ~IsDefaultStopping(event_handlers[batch_end[hidx]])))
    /\ invoked' = Append(invoked, batch_end[hidx])
    /\ hidx' = hidx + 1
    /\ UNCHANGED <<pc, err, args, lists, i, epoch_end_result, cnt, batch_stop, epoch_stop>>
    /\ UNCHANGED ext

\* lines 360-364: break out of the batch loop, or go on to the next batch
BatchEndDecide ==
    /\ pc = "batch_end" /\ LoopExhausted(batch_end, hidx, batch_end_result)
    /\ pc' = AfterBatchEnd(batch_end_result)
    /\ IF pc' = "epoch_end"
       THEN /\ epoch_end_result' = <<>> /\ hidx' = 1 /\ invoked' = <<>>
            /\ batch_stop' = TRUE
            /\ UNCHANGED i
       ELSE /\ i' = i + 1
            /\ UNCHANGED <<epoch_end_result, hidx, invoked, batch_stop>>
    /\ cnt' = [cnt EXCEPT !.be = Sat(@, HistCap)]
    /\ UNCHANGED <<err, args, event_handlers, lists, batch_end_result,
                   other_stop, epoch_stop>>
    /\ UNCHANGED ext

\* lines 365-366
EpochEndHandler ==
    /\ pc = "epoch_end" /\ ~LoopExhausted(epoch_end, hidx, epoch_end_result)
    /\ \E o \in Outcomes(epoch_end, "EpochEnd") :
          /\ event_handlers' = [event_handlers EXCEPT ![epoch_end[hidx]] = o.h]
          /\ epoch_end_result' = Append(epoch_end_result, o.ret)
          /\ other_stop' = (other_stop \/
                (o.ret /\ ~IsDefaultStopping(event_handlers[epoch_end[hidx]])))
    /\ invoked' = Append(invoked, epoch_end[hidx])
    /\ hidx' = hidx + 1
    /\ UNCHANGED <<pc, err, args, lists, i, batch_end_result, cnt, batch_stop, epoch_stop>>
    /\ UNCHANGED ext

\* lines 368-372: break out of the epoch loop, or start the next epoch
EpochEndDecide ==
    /\ pc = "epoch_end" /\ LoopExhausted(epoch_end, hidx, epoch_end_result)
    /\ pc' = AfterEpochEnd(epoch_end_result)
    /\ epoch_stop' = (pc' = "train_end")
    /\ hidx' = 1 /\ invoked' = <<>>
    /\ cnt' = [cnt EXCEPT !.ee = Sat(@, HistCap)]
    /\ UNCHANGED <<err, args, event_handlers, lists, i, batch_end_result,
                   epoch_end_result, other_stop, batch_stop>>
    /\ UNCHANGED ext

\* lines 372-373
TrainEndHandler ==
    /\ pc = "train_end" /\ hidx <= Len(train_end)
    /\ \E o \in Outcomes(train_end, "TrainEnd") :
          event_handlers' = [event_handlers EXCEPT ![train_end[hidx]] = o.h]
    /\ invoked' = Append(invoked, train_end[hidx])
    /\ hidx' = hidx + 1
    /\ UNCHANGED <<pc, err, args, lists, i, batch_end_result, epoch_end_result, ghost>>
    /\ UNCHANGED ext

\* fit returns
TrainEndExit ==
    /\ pc = "train_end" /\ hidx > Len(train_end)
    /\ pc' = "done"
    /\ cnt' = [cnt EXCEPT !.te = Sat(@, HistCap)]
    /\ UNCHANGED <<err, args, event_handlers, lists, hidx, i, batch_end_result,
                   epoch_end_result, invoked, other_stop, batch_stop, epoch_stop>>
    /\ UNCHANGED ext

Next ==
    \/ Fit
    \/ TrainBeginHandler \/ TrainBeginExit
    \/ EpochBeginHandler \/ EpochBeginExit
    \/ BatchIter
    \/ BatchBeginHandler \/ BatchBeginExit
    \/ FitBatch
    \/ BatchEndHandler \/ BatchEndDecide
    \/ EpochEndHandler \/ EpochEndDecide
    \/ TrainEndHandler \/ TrainEndExit

Spec == Init /\ [][Next]_vars

\* the scheduling of the code: fit is one synchronous thread, every step it
\* can take it takes (callbacks are taken to return)
FairSpec == Spec /\ WF_vars(Next)

\* ------------------------------------------------------------------ properties
HandlerPhases == {"train_begin", "epoch_begin", "batch_begin", "batch_end",
                  "epoch_end", "train_end"}

PhaseList(p) ==
    CASE p = "train_begin" -> train_begin
      [] p = "epoch_begin" -> epoch_begin
      [] p = "batch_begin" -> batch_begin
      [] p = "batch_end" -> batch_end
      [] p = "epoch_end" -> epoch_end
      [] p = "train_end" -> train_end
      [] OTHER -> <<>>

\* the state grammar of the dispatcher, as pairs (phase, next phase)
Grammar ==
    { <<"idle", "train_begin">>, <<"idle", "error">>,
      <<"train_begin", "epoch_begin">>,
      <<"epoch_begin", "batch_iter">>,
      <<"batch_iter", "batch_begin">>, <<"batch_iter", "epoch_end">>,
      <<"batch_begin", "fit_batch">>,
      <<"fit_batch", "batch_end">>,
      <<"batch_end", "batch_iter">>, <<"batch_end", "epoch_end">>,
      <<"epoch_end", "epoch_begin">>, <<"epoch_end", "train_end">>,
      <<"train_end", "done">> }

\* fit passed its argument checks and _prepare_default_handlers was entered
PrepareEntered ==
    pc # "idle" /\ err \notin {"ValueError: train_data", "ValueError: iteration"}

\* the handlers of a class among a list
OfClass(hs, cls) == {j \in 1..Len(hs) : hs[j].cls = cls}

DefaultClasses == {"StoppingHandler", "MetricHandler", "ValidationHandler", "LoggingHandler"}

\* C1: a fit that passes its checks moves through the phases in the order of
\* the state grammar; a phase is left only when each of its handlers has been
\* called once, in list order; fit_batch runs only between batch begin and
\* batch end; train begin and train end each complete exactly once, train end
\* last, after which nothing happens.
C1_Step ==
    /\ pc' # pc => <<pc, pc'>> \in Grammar
    /\ (pc \in HandlerPhases /\ pc' # pc) => invoked = PhaseList(pc)
    /\ (pc \in HandlerPhases /\ pc' = pc) =>
            /\ Len(invoked) < Len(PhaseList(pc))
            /\ invoked' = SubSeq(PhaseList(pc), 1, Len(invoked) + 1)
    /\ cnt'.fb # cnt.fb => (pc = "fit_batch" /\ pc' = "batch_end")
    /\ pc = "done" => pc' = "done"

C1_State ==
    /\ cnt.tb <= 1 /\ cnt.te <= 1
    /\ pc \in {"epoch_begin", "batch_iter", "batch_begin", "fit_batch", "batch_end",
               "epoch_end", "train_end", "done"} => cnt.tb = 1
    /\ pc # "done" => cnt.te = 0
    /\ pc = "done" =>
            /\ cnt.tb = 1 /\ cnt.te = 1
            /\ cnt.eb >= 1 /\ cnt.ee = cnt.eb
            /\ cnt.bb = cnt.fb /\ cnt.be = cnt.fb
            /\ invoked = train_end

C1_LifecycleOrder == [][C1_Step]_vars /\ []C1_State

C1_Witness ==
    /\ pc = "done" /\ cnt.eb = 2 /\ cnt.fb >= 3
    /\ batch_begin # <<>> /\ epoch_begin # <<>> /\ Len(train_end) >= 2

\* C2: with a DataLoader as train_data, fit raises the iteration error before
\* any handler or batch runs when epochs and batches are both given or both
\* absent, and does not raise it when exactly one of them is given.
C2_ExactlyOneGiven ==
    (pc # "idle" /\ IsDataLoader(train_data)) =>
        LET both    == epochs # None /\ batches # None
            neither == epochs = None /\ batches = None
        IN  /\ (both \/ neither) =>
                    (err = "ValueError: iteration" /\ cnt = ZeroCnt /\ invoked = <<>>)
            /\ ~(both \/ neither) => err # "ValueError: iteration"

\* C3: fit(epochs=N), N >= 1, over K batches per iteration, where only the
\* default stopping handler signals stop: never more than N epochs start, no
\* batch loop is abandoned, and on return the phases completed are 1 train
\* begin, N epoch begin, N*K batch begin, fit_batch and batch end, N epoch end
\* and 1 train end.
C3_EpochCount ==
    (epochs >= 1 /\ batches = None /\ ~other_stop /\ PrepareEntered /\ err = "") =>
        /\ cnt.eb <= epochs
        /\ ~batch_stop
        /\ pc = "done" =>
              cnt = [tb |-> 1, eb |-> epochs, bb |-> epochs * train_data,
                     fb |-> epochs * train_data, be |-> epochs * train_data,
                     ee |-> epochs, te |-> 1]

C3_Witness ==
    /\ pc = "done" /\ epochs = 2 /\ batches = None /\ train_data = 3
    /\ ~other_stop /\ cnt.fb = 6

\* the default stopping handler of the final list has raised its stop flag
DefaultStoppingRaised ==
    \E j \in 1..Len(event_handlers) :
        IsDefaultStopping(event_handlers[j]) /\ event_handlers[j].stop_training

\* fit(batches=B), B >= 1, K >= 1 batches per iteration, default handlers only
BatchLimited ==
    /\ PrepareEntered /\ err = ""
    /\ epochs = None /\ batches >= 1 /\ train_data >= 1
    /\ user_handlers = <<>>

\* C4: fit(batches=B), B >= 1, over K >= 1 batches per iteration with the
\* default handlers only: never more than B fit_batch calls, no batch is
\* started once B batch ends have completed, every break out of the batch
\* loop or the epoch loop comes with the stopping handler's raised flag, the
\* run reaches the end of fit, and there exactly B batches were executed.
C4_State ==
    BatchLimited =>
        /\ cnt.fb <= batches
        /\ cnt.be = batches => pc \in {"epoch_end", "train_end", "done"}
        /\ (batch_stop \/ epoch_stop) => (DefaultStoppingRaised /\ cnt.be = batches)
        /\ pc = "done" => (cnt.fb = batches /\ cnt.be = batches /\ cnt.te = 1)

C4_BatchCount == []C4_State /\ ((BatchLimited /\ pc = "train_begin") ~> (pc = "done"))

C4_Witness ==
    /\ BatchLimited /\ pc = "done" /\ batches = 3 /\ train_data = 2
    /\ cnt.fb = 3 /\ cnt.eb = 2

\* C5: when a batch-end handler returned a true stop signal, the dispatcher
\* leaves the batch loop for the epoch-end handlers of the same epoch; no
\* batch begin, fit_batch or batch end follows in that epoch.  With a handler
\* that signals stop on the 2nd batch of every epoch, no epoch gets past its
\* 2nd batch.
C5_Step ==
    /\ (pc = "batch_end" /\ hidx > Len(batch_end) /\ AnySignal(batch_end_result)) =>
            (pc' = "epoch_end" /\ cnt'.ee = cnt.ee /\ cnt'.eb = cnt.eb)
    /\ (batch_stop /\ cnt'.eb = cnt.eb) =>
            (cnt'.bb = cnt.bb /\ cnt'.fb = cnt.fb /\ cnt'.be = cnt.be)

C5_State ==
    /\ batch_stop => pc \in {"epoch_end", "epoch_begin", "train_end", "done"}
    /\ (PrepareEntered /\ err = "" /\
        \E j \in 1..Len(event_handlers) : event_handlers[j].behaviour = "second") => i <= 1

C5_BatchStop == [][C5_Step]_vars /\ []C5_State

C5_Witness ==
    /\ pc = "epoch_end" /\ batch_stop /\ i = 1 /\ train_data = 3
    /\ batch_end_result = <<FALSE, FALSE, TRUE, FALSE>>
    /\ \E j \in 1..Len(event_handlers) : event_handlers[j].behaviour = "second"
    /\ ~DefaultStoppingRaised

\* C6: when an epoch-end handler returned a true stop signal, the dispatcher
\* leaves the epoch loop for the train-end handlers; afterwards no epoch or
\* batch phase completes, and fit returns with every train-end handler called
\* once.
C6_Step ==
    /\ (pc = "epoch_end" /\ hidx > Len(epoch_end) /\ AnySignal(epoch_end_result)) =>
            pc' = "train_end"
    /\ epoch_stop =>
            /\ pc' \in {"train_end", "done"}
            /\ cnt' = [cnt EXCEPT !.te = cnt'.te]

C6_State ==
    /\ epoch_stop => pc \in {"train_end", "done"}
    /\ pc \in {"train_end", "done"} => epoch_stop
    /\ pc = "done" => (invoked = train_end /\ cnt.te = 1)

C6_EpochStop == [][C6_Step]_vars /\ []C6_State

C6_Witness ==
    /\ pc = "done" /\ epoch_stop /\ epochs = 2 /\ cnt.ee = 1
    /\ ~DefaultStoppingRaised /\ Len(train_end) = 2 /\ invoked = train_end

\* the defaults of a class that _prepare_default_handlers constructed
InjectedOf(cls) == OfClass(added_default_handlers, cls)

\* C7 as stated: for each of the four categories at most one default is
\* injected, and none when the caller's handlers contain one of the category.
C7_Original ==
    PrepareEntered =>
        \A cls \in DefaultClasses :
            /\ Cardinality(InjectedOf(cls)) <= 1
            /\ HasInstance(user_handlers, cls) => InjectedOf(cls) = {}

\* the defaults of a class in the list fit works on
DefaultsInList(cls) ==
    {j \in 1..Len(event_handlers) :
        event_handlers[j].cls = cls /\ event_handlers[j].origin > 0}

\* C7 amended: at most one default per category; for the metric, validation
\* and logging categories none when the caller's handlers contain one; the
\* default stopping handler is constructed once whatever the caller supplied,
\* and when preparation completes the final list holds the caller's handlers
\* and exactly the constructed defaults, one default stopping handler among
\* them.
C7_AtMostOneDefault ==
    PrepareEntered =>
        /\ \A cls \in DefaultClasses : Cardinality(InjectedOf(cls)) <= 1
        /\ \A cls \in DefaultClasses \ {"StoppingHandler"} :
              HasInstance(user_handlers, cls) => InjectedOf(cls) = {}
        /\ Cardinality(InjectedOf("StoppingHandler")) = 1
        /\ \A j \in 1..Len(added_default_handlers) :
              added_default_handlers[j].cls \in DefaultClasses
        /\ err = "" =>
              /\ Len(event_handlers) = Len(user_handlers) + Len(added_default_handlers)
              /\ \A cls \in DefaultClasses :
                    Cardinality(DefaultsInList(cls)) = Cardinality(InjectedOf(cls))
              /\ Cardinality(DefaultsInList("StoppingHandler")) = 1

C7_Witness ==
    /\ PrepareEntered /\ err = "" /\ pc = "train_begin"
    /\ HasInstance(user_handlers, "MetricHandler")
    /\ HasInstance(user_handlers, "LoggingHandler")
    /\ InjectedOf("MetricHandler") = {} /\ InjectedOf("LoggingHandler") = {}
    /\ Len(added_default_handlers) = 1

\* the list is in non-decreasing priority
SortedByPriority(hs) ==
    \A j \in 1..(Len(hs) - 1) : SortKey(hs[j]) <= SortKey(hs[j + 1])

\* C8: fit with no handlers (an empty list or None) and validation data
\* prepares exactly four handlers, one of each default class, all of them
\* injected defaults, in non-decreasing priority.
C8_FourDefaults ==
    (PrepareEntered /\ user_handlers = <<>> /\ val_data) =>
        /\ err = ""
        /\ Len(event_handlers) = 4
        /\ \A cls \in DefaultClasses : Cardinality(OfClass(event_handlers, cls)) = 1
        /\ \A j \in 1..Len(event_handlers) : event_handlers[j].origin > 0
        /\ SortedByPriority(event_handlers)

C8_Witness ==
    /\ PrepareEntered /\ user_handlers = <<>> /\ val_data /\ given
    /\ Len(event_handlers) = 4 /\ pc = "train_begin"

\* C9: without validation data no default ValidationHandler is injected, and
\* a default LoggingHandler that is injected holds the training metrics and
\* an empty validation metric list.
C9_NoValidationData ==
    (PrepareEntered /\ ~val_data) =>
        /\ InjectedOf("ValidationHandler") = {}
        /\ \A j \in 1..Len(event_handlers) :
              event_handlers[j].origin > 0 => event_handlers[j].cls # "ValidationHandler"
        /\ \A j \in InjectedOf("LoggingHandler") :
              /\ added_default_handlers[j].val_metrics = <<>>
              /\ added_default_handlers[j].train_metrics = train_metrics

C9_Witness ==
    /\ PrepareEntered /\ ~val_data /\ err = ""
    /\ InjectedOf("LoggingHandler") # {}
    /\ HasInstance(event_handlers, "LoggingHandler")
    /\ user_handlers # <<>>

\* C10: whenever the caller's handlers contain no LoggingHandler, preparation
\* does not fail on the way and injects exactly one default LoggingHandler
\* bound to the training metrics and a defined validation metric list; and
\* exactly one default MetricHandler when the caller supplied none.
C10_LoggingAlwaysAdded ==
    (PrepareEntered /\ ~HasInstance(user_handlers, "LoggingHandler")) =>
        /\ err # "UnboundLocalError"
        /\ Cardinality(InjectedOf("LoggingHandler")) = 1
        /\ \A j \in InjectedOf("LoggingHandler") :
              /\ added_default_handlers[j].train_metrics = train_metrics
              /\ added_default_handlers[j].val_metrics \in {<<>>, val_metrics}
        /\ ~HasInstance(user_handlers, "MetricHandler") =>
              Cardinality(InjectedOf("MetricHandler")) = 1

\* C17: a batch-end (epoch-end) handler is called although an earlier handler
\* of the same phase already returned a true stop signal; the phase is left,
\* and the stop decision taken, only when every handler of the list has been
\* called exactly once and has returned its signal.
C17_Step ==
    /\ (pc = "batch_end" /\ pc' # pc) =>
            (invoked = batch_end /\ Len(batch_end_result) = Len(batch_end))
    /\ (pc = "batch_end" /\ hidx <= Len(batch_end)) =>
            (pc' = "batch_end" /\ invoked' = Append(invoked, batch_end[hidx])
             /\ Len(batch_end_result') = Len(batch_end_result) + 1)
    /\ (pc = "epoch_end" /\ pc' # pc) =>
            (invoked = epoch_end /\ Len(epoch_end_result) = Len(epoch_end))
    /\ (pc = "epoch_end" /\ hidx <= Len(epoch_end)) =>
            (pc' = "epoch_end" /\ invoked' = Append(invoked, epoch_end[hidx])
             /\ Len(epoch_end_result') = Len(epoch_end_result) + 1)

C17_AllHandlersCalled == [][C17_Step]_vars

C17_Witness ==
    /\ pc = "batch_end" /\ hidx > Len(batch_end) /\ Len(batch_end) = 4
    /\ batch_end_result = <<FALSE, TRUE, FALSE, FALSE>>
    /\ invoked = batch_end

\* C18: training ends only from an epoch-end phase in which some handler
\* returned a true stop signal; after a batch loop abandoned on a batch-end
\* signal, epoch end runs, and when no epoch-end handler returns true the next
\* epoch begins.
C18_Step ==
    /\ (pc' = "train_end" /\ pc # "train_end") =>
            (pc = "epoch_end" /\ invoked = epoch_end /\ AnySignal(epoch_end_result))
    /\ (pc = "batch_end" /\ pc' # pc) => pc' \in {"batch_iter", "epoch_end"}
    /\ (pc = "epoch_end" /\ hidx > Len(epoch_end) /\ ~AnySignal(epoch_end_result)) =>
            pc' = "epoch_begin"

C18_BatchStopOnlyEndsEpoch == [][C18_Step]_vars

C18_Witness ==
    /\ pc = "epoch_begin" /\ batch_stop /\ cnt.ee >= 1
    /\ ~AnySignal(epoch_end_result) /\ Len(epoch_end_result) = Len(epoch_end)
    /\ AnySignal(batch_end_result)

\* some handler of the list references a metric the estimator does not know
ReferencesUnknownMetric(hs) ==
    \E j \in 1..Len(hs) :
        ~(Range(hs[j].train_metrics) \cup Range(hs[j].val_metrics)
            \subseteq Range(train_metrics) \cup Range(val_metrics))

\* C11: with a non-empty user handler list to which the defaults are added
\* (line 405 is reached), the warning is emitted and every handler, user or
\* default, is checked: if one references an unknown metric, fit raises the
\* ValueError before any handler or batch runs; if none does, fit goes on to
\* train begin.  Without user handlers there is neither warning nor check.
C11_MetricRefCheck ==
    (PrepareEntered /\ err # "UnboundLocalError") =>
        /\ user_handlers # <<>> =>
              /\ warned
              /\ ReferencesUnknownMetric(user_handlers \o added_default_handlers) =>
                    /\ pc = "error" /\ err = "ValueError"
                    /\ cnt = ZeroCnt /\ invoked = <<>>
                    /\ train_begin = <<>> /\ batch_end = <<>>
              /\ ~ReferencesUnknownMetric(user_handlers \o added_default_handlers) =>
                    (pc # "error" /\ err = "")
        /\ user_handlers = <<>> => (~warned /\ err = "")

C11_Witness ==
    /\ PrepareEntered /\ pc = "error" /\ err = "ValueError" /\ warned
    /\ ReferencesUnknownMetric(user_handlers)
    /\ ~ReferencesUnknownMetric(added_default_handlers)
    /\ Len(event_handlers) = Len(user_handlers) + Len(added_default_handlers)

\* position of a handler in the registration order: the caller's handlers in
\* their order, then the defaults in the order they were added
Registered == user_handlers \o added_default_handlers
RegIndex(h) == CHOOSE j \in 1..Len(Registered) : Registered[j] = h

\* the handlers of a phase list, as they were when fit started the loop
PhaseHandlers(list) == [j \in 1..Len(list) |-> event_handlers[list[j]]]

\* positions in a phase list are strictly increasing positions of the final list
Increasing(list) == \A j \in 1..(Len(list) - 1) : list[j] < list[j + 1]

\* C12: after preparation the final list holds exactly the registered
\* handlers, in ascending priority (no priority counts 0), handlers of equal
\* priority in registration order; each of the six phase lists holds the
\* handlers with that capability in the order of the final list, so two
\* handlers keep their relative order in every phase they share; and the
\* handlers of a phase are called in the order of its list.
C12_Prepared ==
    /\ Len(event_handlers) = Len(Registered)
    /\ \A j \in 1..(Len(event_handlers) - 1) :
          SortKey(event_handlers[j]) <= SortKey(event_handlers[j + 1])
    /\ \A p \in Phases :
          LET list == CategorizeHandlers(event_handlers, p)
          IN  /\ Increasing(list)
              /\ Range(list) = {j \in 1..Len(event_handlers) : p \in event_handlers[j].caps}

C12_Order ==
    (PrepareEntered /\ err = "") =>
        /\ C12_Prepared
        /\ train_begin = CategorizeHandlers(event_handlers, "TrainBegin")
        /\ epoch_begin = CategorizeHandlers(event_handlers, "EpochBegin")
        /\ batch_begin = CategorizeHandlers(event_handlers, "BatchBegin")
        /\ batch_end = CategorizeHandlers(event_handlers, "BatchEnd")
        /\ epoch_end = CategorizeHandlers(event_handlers, "EpochEnd")
        /\ train_end = CategorizeHandlers(event_handlers, "TrainEnd")
        /\ pc \in HandlerPhases =>
              invoked = SubSeq(PhaseList(pc), 1, Len(invoked))
        /\ pc = "train_begin" /\ hidx = 1 =>
              /\ Range(event_handlers) = Range(Registered)
              /\ \A j, k \in 1..Len(event_handlers) :
                    (j < k /\ SortKey(event_handlers[j]) = SortKey(event_handlers[k])) =>
                        RegIndex(event_handlers[j]) < RegIndex(event_handlers[k])

C12_Witness ==
    /\ pc = "batch_end" /\ hidx > Len(batch_end) /\ Len(batch_end) = 4
    /\ event_handlers[batch_end[2]].cls = "Custom"
    /\ event_handlers[batch_end[3]].cls = "StoppingHandler"
    /\ SortKey(event_handlers[batch_end[2]]) = SortKey(event_handlers[batch_end[3]])
    /\ invoked = batch_end

\* ================================================================== fit_batch in steps
\* bound: the contexts an estimator is built on
MaxContexts == 2

\* a user-defined handler of every phase whose callbacks may raise
RaisingHandler == Handler("Custom", FALSE, 0, Phases, "raises", <<>>, <<>>, 0)

DetailLists == { <<>>, <<RaisingHandler>>, <<SecondBatchHandler>> }

\* estimators on 1..MaxContexts contexts; a batch holds one or two samples per context
InitDetail ==
    /\ FitInit(DetailLists)
    /\ contexts \in 1..MaxContexts
    /\ batch_size \in {contexts, 2 * contexts}
    /\ EvalInit

\* the events of fit_batch that have kind k
Events(k) == SelectSeq(fb_trace, LAMBDA ev : ev[1] = k)

\* lines 268-272: the batch is split into one shard per context, its size
\* is read, the record scope is entered
FitBatchSplit ==
    /\ pc = "fit_batch" /\ fb_pc = "idle"
    /\ fb_pc' = "pred" /\ fb_trace' = <<>> /\ recording' = TRUE
    /\ UNCHANGED <<fitvars, trainer_steps, contexts, batch_size, step_size, rvars, evars>>

\* line 273: pred = [self.net(x) for x in data]
FitBatchPred ==
    /\ fb_pc = "pred"
    /\ IF Len(Events("pred")) < contexts
       THEN /\ fb_trace' = Append(fb_trace, <<"pred", Len(Events("pred")) + 1, recording>>)
            /\ UNCHANGED fb_pc
       ELSE /\ fb_pc' = "loss"
            /\ UNCHANGED fb_trace
    /\ UNCHANGED <<fitvars, trainer_steps, contexts, batch_size, recording, step_size,
                   rvars, evars>>

\* line 274: loss = [self.loss[0](y_hat, y) for y_hat, y in zip(pred, label)];
\* when the list is built the record scope is left
FitBatchLoss ==
    /\ fb_pc = "loss"
    /\ IF Len(Events("loss")) < contexts
       THEN /\ fb_trace' = Append(fb_trace, <<"loss", Len(Events("loss")) + 1, recording>>)
            /\ UNCHANGED <<fb_pc, recording>>
       ELSE /\ fb_pc' = "backward" /\ recording' = FALSE
            /\ UNCHANGED fb_trace
    /\ UNCHANGED <<fitvars, trainer_steps, contexts, batch_size, step_size, rvars, evars>>

\* faulty variant of BackwardDone: the trainer steps after the first shard
BackwardDoneEarly(done, n) == done >= 1

\* lines 276-277: `for l in loss` is exhausted
BackwardDone(done, n) == done = n

\* lines 276-279: l.backward() for every shard, then trainer.step(batch_size)
FitBatchBackward ==
    /\ fb_pc = "backward"
    /\ IF ~BackwardDone(Len(Events("backward")), contexts)
       THEN /\ fb_trace' = Append(fb_trace,
                                  <<"backward", Len(Events("backward")) + 1, recording>>)
            /\ UNCHANGED <<fb_pc, trainer_steps, step_size>>
       ELSE /\ fb_trace' = Append(fb_trace, <<"step", batch_size, recording>>)
            /\ trainer_steps' = Sat(trainer_steps, HistCap)
            /\ step_size' = batch_size
            /\ fb_pc' = "return"
    /\ UNCHANGED <<fitvars, contexts, batch_size, recording, rvars, evars>>

\* lines 281 and 351-355: fit_batch returns, batch_end_result is emptied
FitBatchReturn ==
    /\ pc = "fit_batch" /\ fb_pc = "return"
    /\ fb_pc' = "idle"
    /\ pc' = "batch_end" /\ hidx' = 1 /\ invoked' = <<>>
    /\ batch_end_result' = <<>>
    /\ cnt' = [cnt EXCEPT !.fb = Sat(@, HistCap)]
    /\ UNCHANGED <<err, args, event_handlers, lists, i, epoch_end_result,
                   other_stop, batch_stop, epoch_stop>>
    /\ UNCHANGED <<trainer_steps, contexts, batch_size, fb_trace, recording, step_size,
                   rvars, evars>>

\* faulty variant of OnHandlerException: the dispatcher swallows the exception
OnHandlerExceptionSwallowed(phase) == phase

\* lines 338-373: no handler call is inside a try statement, an exception
\* leaves fit
OnHandlerException(phase) == "error"

\* the callback of handler number hidx raises
HandlerRaises ==
    /\ pc \in HandlerPhases /\ hidx <= Len(PhaseList(pc))
    /\ event_handlers[PhaseList(pc)[hidx]].behaviour = "raises"
    /\ pc' = OnHandlerException(pc)
    /\ err' = "HandlerError"
    /\ raised_at' = pc
    /\ invoked' = Append(invoked, PhaseList(pc)[hidx])
    /\ hidx' = IF pc' = "error" THEN hidx ELSE hidx + 1
    /\ batch_end_result' = IF pc' = "batch_end" THEN Append(batch_end_result, FALSE)
                           ELSE batch_end_result
    /\ epoch_end_result' = IF pc' = "epoch_end" THEN Append(epoch_end_result, FALSE)
                           ELSE epoch_end_result
    /\ UNCHANGED <<args, event_handlers, lists, i, ghost>>
    /\ UNCHANGED <<trainer_steps, bvars, calls, first, evars>>

NextDetail ==
    \/ Fit
    \/ TrainBeginHandler \/ TrainBeginExit
    \/ EpochBeginHandler \/ EpochBeginExit
    \/ BatchIter
    \/ BatchBeginHandler \/ BatchBeginExit
    \/ FitBatchSplit \/ FitBatchPred \/ FitBatchLoss \/ FitBatchBackward \/ FitBatchReturn
    \/ BatchEndHandler \/ BatchEndDecide
    \/ EpochEndHandler \/ EpochEndDecide
    \/ TrainEndHandler \/ TrainEndExit
    \/ HandlerRaises

SpecDetail == InitDetail /\ [][NextDetail]_vars

\* ------------------------------------------------------------------ C16
IsPrefix(a, b) == Len(a) <= Len(b) /\ \A j \in 1..Len(a) : a[j] = b[j]

\* what one fit_batch call on n shards of a batch of size b is to do
ExpectedFitBatch(n, b) ==
    [j \in 1..n |-> <<"pred", j, TRUE>>] \o [j \in 1..n |-> <<"loss", j, TRUE>>]
    \o [j \in 1..n |-> <<"backward", j, FALSE>>] \o << <<"step", b, FALSE>> >>

\* C16: fit_batch computes the forward pass and the loss of every context
\* shard inside the one record scope, then runs backward on every shard's
\* loss outside it, then steps the trainer exactly once with the size of the
\* whole batch; the trainer has stepped once per batch trained on.
C16_FitBatchOrder ==
    /\ pc = "fit_batch" /\ fb_pc # "idle" =>
          IsPrefix(fb_trace, ExpectedFitBatch(contexts, batch_size))
    /\ fb_pc = "return" =>
          /\ fb_trace = ExpectedFitBatch(contexts, batch_size)
          /\ step_size = batch_size
    /\ recording <=> fb_pc \in {"pred", "loss"}
    /\ fb_pc # "idle" => pc = "fit_batch"
    /\ trainer_steps = (IF fb_pc = "return" THEN Sat(cnt.fb, HistCap) ELSE cnt.fb)
    /\ pc = "done" => trainer_steps = cnt.fb

C16_Witness ==
    /\ pc = "fit_batch" /\ fb_pc = "return"
    /\ contexts = 2 /\ batch_size = 4
    /\ fb_trace = << <<"pred", 1, TRUE>>, <<"pred", 2, TRUE>>, <<"loss", 1, TRUE>>,
                    <<"loss", 2, TRUE>>, <<"backward", 1, FALSE>>,
                    <<"backward", 2, FALSE>>, <<"step", 4, FALSE>> >>
    /\ trainer_steps = 2 /\ cnt.fb = 1

\* ------------------------------------------------------------------ C15
C15_State ==
    err = "HandlerError" =>
        /\ pc = "error"
        /\ raised_at \in HandlerPhases
        /\ Len(invoked) = hidx
        /\ invoked = SubSeq(PhaseList(raised_at), 1, hidx)
        /\ event_handlers[invoked[hidx]].behaviour = "raises"
        /\ trainer_steps = cnt.fb
        /\ cnt.te = 0

C15_Step ==
    err = "HandlerError" =>
        /\ pc' = pc /\ hidx' = hidx /\ i' = i
        /\ invoked' = invoked /\ cnt' = cnt /\ trainer_steps' = trainer_steps
        /\ event_handlers' = event_handlers /\ fb_trace' = fb_trace

\* C15: an exception raised by a handler callback is not caught by fit: the
\* raising handler is the last one invoked, no later handler of that phase,
\* no later phase (train end included) and no later batch runs, and the
\* trainer has stepped exactly once per fit_batch call completed before it.
C15_HandlerExceptionPropagates == []C15_State /\ [][C15_Step]_vars

C15_Witness ==
    /\ pc = "error" /\ err = "HandlerError" /\ raised_at = "batch_end"
    /\ Len(batch_end) = 4 /\ hidx = 2 /\ Len(invoked) = 2
    /\ trainer_steps = 2 /\ cnt.fb = 2 /\ cnt.be = 1 /\ cnt.te = 0

\* ------------------------------------------------------------------ C19
\* C19: with the default handlers only, every accepted fit call eventually
\* reaches the train-end phase, whatever the limit and however many batches
\* (none included) train_data yields.
C19_DefaultsTerminate ==
    (pc = "train_begin" /\ user_handlers = <<>>) ~> (pc = "train_end")

\* ================================================================== fit called again
\* bound: the fit calls a caller makes on one estimator with one handler list
MaxFits == 2

RefitLists == { <<MetricHandler(train_metrics, 0)>>, <<SecondBatchHandler>> }

InitRefit ==
    /\ FitInit(RefitLists)
    /\ contexts = 1 /\ batch_size = 1
    /\ EvalInit

\* the caller's list object as the caller sees it now: lines 405 and 418
\* extend and sort the list object fit works on, which is the caller's own
\* whenever the caller passed a non-empty list
CallerView == IF aliased THEN event_handlers ELSE caller_list

\* fit has returned and the caller is about to call it again with the same
\* list object
FitReturn ==
    /\ pc = "done" /\ calls + 1 < MaxFits
    /\ pc' = "idle"
    /\ calls' = calls + 1
    /\ first' = IF calls = 0 THEN [list |-> caller_list, final |-> event_handlers]
                ELSE first
    /\ caller_list' = CallerView
    /\ aliased' = FALSE
    /\ user_handlers' = <<>> /\ added_default_handlers' = <<>> /\ warned' = FALSE
    /\ event_handlers' = <<>>
    /\ train_begin' = <<>> /\ epoch_begin' = <<>> /\ batch_begin' = <<>>
    /\ batch_end' = <<>> /\ epoch_end' = <<>> /\ train_end' = <<>>
    /\ hidx' = 1 /\ i' = 0
    /\ batch_end_result' = <<>> /\ epoch_end_result' = <<>>
    /\ invoked' = <<>>
    /\ cnt' = ZeroCnt
    /\ other_stop' = FALSE /\ batch_stop' = FALSE /\ epoch_stop' = FALSE
    /\ trainer_steps' = 0
    /\ UNCHANGED <<err, given, train_data, val_data, epochs, batches, max_epoch, max_batch,
                   bvars, raised_at, evars>>

NextRefit == Next \/ FitReturn

SpecRefit == InitRefit /\ [][NextRefit]_vars

\* ------------------------------------------------------------------ C20
\* the handlers of list hs that take part in phase p
CategoryCount(hs, p) == Len(CategorizeHandlers(hs, p))

\* C20: fit leaves the caller's handler list as it was, and a later fit call
\* with the same list works on as many handlers of every category as the
\* first one did.
C20_CallerListUnchanged ==
    calls >= 1 =>
        /\ caller_list = first.list
        /\ pc = "done" =>
              \A p \in Phases : CategoryCount(event_handlers, p) = CategoryCount(first.final, p)

\* ================================================================== metrics and evaluate
\* bound: the batches a validation DataLoader yields
MaxV == 2
\* metric counters saturate here
NumCap == MaxV + 1

\* a metric object: its class, its name (a sequence of words), the number of
\* updates since its last reset and the kind of arguments last fed to it
Metric(kind, name, num_inst) ==
    [kind |-> kind, name |-> name, num_inst |-> num_inst, fed |-> ""]

\* metric.update / metric.reset
Update(m, fed) == [m EXCEPT !.num_inst = Sat(@, NumCap), !.fed = fed]
Reset(m) == [m EXCEPT !.num_inst = 0, !.fed = ""]

\* the `metrics` argument of the constructor and what the loss suggests:
\* none given with an accuracy suggested, none given with nothing suggested,
\* one metric given that has been updated before
MetricInputs ==
    { [metrics |-> <<>>, suggested |-> TRUE],
      [metrics |-> <<>>, suggested |-> FALSE],
      [metrics |-> <<Metric("Accuracy", <<"accuracy">>, 1)>>, suggested |-> TRUE] }

\* metric.name = prefix + metric.name
Rename(m, prefix) == [m EXCEPT !.name = <<prefix>> \o @]

\* lines 166-175
AddDefaultTrainingMetrics(ms, suggested) ==
    LET filled == IF ms = <<>>
                  THEN (IF suggested THEN <<Metric("Accuracy", <<"accuracy">>, 0)>> ELSE <<>>)
                       \o <<Metric("Loss", <<"loss">>, 0)>>
                  ELSE ms
    IN  [j \in 1..Len(filled) |-> Rename(filled[j], "training")]

\* faulty variant of AddValidationMetrics: the list is copied, the metric
\* objects are not
AddValidationMetricsShared(objects, train) ==
    [store |-> [id \in 1..Len(objects) |->
                   IF id \in Range(train) THEN Rename(objects[id], "validation")
                   ELSE objects[id]],
     val |-> train]

\* lines 177-181: every training metric is deep-copied into a new object,
\* the copies are renamed
AddValidationMetrics(objects, train) ==
    [store |-> objects \o [j \in 1..Len(train) |-> Rename(objects[train[j]], "validation")],
     val |-> [j \in 1..Len(train) |-> Len(objects) + j]]

\* lines 70-72: the constructor builds the two metric sets
Construct ==
    /\ ev_pc = "new"
    /\ \E arg \in MetricInputs :
          LET tm == AddDefaultTrainingMetrics(arg.metrics, arg.suggested)
              r  == AddValidationMetrics(tm, [j \in 1..Len(tm) |-> j])
          IN  /\ store' = r.store
              /\ est_train' = [j \in 1..Len(tm) |-> j]
              /\ est_val' = r.val
    /\ ev_pc' = "ready"
    /\ UNCHANGED <<ev_data, ev_metrics, ev_j, ev_trace, ev_store0>>
    /\ UNCHANGED <<fitvars, trainer_steps, bvars, rvars>>

\* faulty variant of EvaluateEntry: the metrics are not reset
EvaluateEntryNoReset(vd) == IF ~IsDataLoader(vd) THEN "raised" ELSE "batches"

\* lines 235-240: ValueError on anything but a DataLoader, else the reset loop
EvaluateEntry(vd) == IF ~IsDataLoader(vd) THEN "raised" ELSE "reset"

\* evaluate(val_data, val_metrics) is called, by the validation handler or
\* by the user, on either metric set
Evaluate ==
    /\ ev_pc = "ready"
    /\ \E vd \in {NotLoader} \cup 0..MaxV, ms \in {est_val, est_train} :
          /\ ev_data' = vd /\ ev_metrics' = ms
          /\ ev_pc' = EvaluateEntry(vd)
          /\ ev_j' = IF ev_pc' = "reset" THEN 1 ELSE 0
    /\ ev_trace' = <<>> /\ ev_store0' = store
    /\ UNCHANGED <<store, est_train, est_val>>
    /\ UNCHANGED <<fitvars, trainer_steps, bvars, rvars>>

\* lines 240-241
EvalReset ==
    /\ ev_pc = "reset"
    /\ IF ev_j <= Len(ev_metrics)
       THEN /\ store' = [store EXCEPT ![ev_metrics[ev_j]] = Reset(@)]
            /\ ev_trace' = Append(ev_trace, <<"reset", ev_metrics[ev_j]>>)
            /\ ev_j' = ev_j + 1
            /\ UNCHANGED ev_pc
       ELSE /\ ev_pc' = "batches" /\ ev_j' = 0
            /\ UNCHANGED <<store, ev_trace>>
    /\ UNCHANGED <<est_train, est_val, ev_data, ev_metrics, ev_store0>>
    /\ UNCHANGED <<fitvars, trainer_steps, bvars, rvars>>

\* lines 209-214: evaluate_batch feeds every metric of the list, the loss
\* metric with the loss, any other with labels and predictions
EvaluateBatch(objects, ms) ==
    [id \in 1..Len(objects) |->
        IF id \in Range(ms)
        THEN Update(objects[id], IF objects[id].kind = "Loss" THEN "loss" ELSE "label_pred")
        ELSE objects[id]]

\* lines 243-244
EvalBatch ==
    /\ ev_pc = "batches"
    /\ IF ev_j < ev_data
       THEN /\ store' = EvaluateBatch(store, ev_metrics)
            /\ ev_trace' = Append(ev_trace, <<"evaluate_batch", ev_j>>)
            /\ ev_j' = ev_j + 1
            /\ UNCHANGED ev_pc
       ELSE /\ ev_pc' = "done"
            /\ UNCHANGED <<store, ev_trace, ev_j>>
    /\ UNCHANGED <<est_train, est_val, ev_data, ev_metrics, ev_store0>>
    /\ UNCHANGED <<fitvars, trainer_steps, bvars, rvars>>

\* evaluate has returned or raised, the caller goes on
EvalReturn ==
    /\ ev_pc \in {"done", "raised"}
    /\ ev_pc' = "ready"
    /\ UNCHANGED <<store, est_train, est_val, ev_data, ev_metrics, ev_j, ev_trace, ev_store0>>
    /\ UNCHANGED <<fitvars, trainer_steps, bvars, rvars>>

\* during fit the metric handler resets the training metrics at epoch begin
\* and updates them at batch end
MetricHandlerStep ==
    /\ ev_pc = "ready"
    /\ \/ store' = [id \in 1..Len(store) |->
                       IF id \in Range(est_train) THEN Reset(store[id]) ELSE store[id]]
       \/ store' = EvaluateBatch(store, est_train)
    /\ UNCHANGED <<est_train, est_val, ev_pc, ev_data, ev_metrics, ev_j, ev_trace, ev_store0>>
    /\ UNCHANGED <<fitvars, trainer_steps, bvars, rvars>>

NextEval ==
    \/ Construct
    \/ Evaluate \/ EvalReset \/ EvalBatch \/ EvalReturn
    \/ MetricHandlerStep

\* no fit call is under way
InitEval ==
    /\ FitInit({<<>>})
    /\ contexts = 1 /\ batch_size = 1
    /\ EvalInit

SpecEval == InitEval /\ [][NextEval]_vars

\* ------------------------------------------------------------------ C13
\* what evaluate is to do with the metrics ms on a source of n batches
ExpectedEvaluate(ms, n) ==
    [j \in 1..Len(ms) |-> <<"reset", ms[j]>>] \o [j \in 1..n |-> <<"evaluate_batch", j - 1>>]

\* C13: evaluate resets every metric it was passed before the first batch
\* and none afterwards, then runs evaluate_batch once per batch of the data
\* source in the source's order, so that every metric ends with one update
\* per batch; on anything but a DataLoader it raises ValueError and no
\* metric has been reset or updated.
C13_EvaluateOrder ==
    /\ ev_pc \in {"reset", "batches"} =>
          /\ IsDataLoader(ev_data)
          /\ IsPrefix(ev_trace, ExpectedEvaluate(ev_metrics, ev_data))
    /\ ev_pc = "batches" => Len(ev_trace) = Len(ev_metrics) + ev_j
    /\ ev_pc = "done" =>
          /\ ev_trace = ExpectedEvaluate(ev_metrics, ev_data)
          /\ \A id \in Range(ev_metrics) : store[id].num_inst = ev_data
    /\ ev_pc = "raised" =>
          /\ ~IsDataLoader(ev_data)
          /\ ev_trace = <<>>
          /\ store = ev_store0

C13_Witness ==
    /\ ev_pc = "done" /\ ev_data = 2 /\ Len(ev_metrics) = 2
    /\ ev_store0[ev_metrics[1]].num_inst = 1
    /\ ev_trace = << <<"reset", ev_metrics[1]>>, <<"reset", ev_metrics[2]>>,
                    <<"evaluate_batch", 0>>, <<"evaluate_batch", 1>> >>
    /\ store[ev_metrics[1]].num_inst = 2

C13_WitnessRaised ==
    /\ ev_pc = "raised" /\ ev_data = NotLoader
    /\ \E id \in Range(ev_metrics) : store[id].num_inst > 0

\* ------------------------------------------------------------------ C14
Constructed == ev_pc # "new"

C14_State ==
    Constructed =>
        /\ Len(est_val) = Len(est_train)
        /\ \A j \in 1..Len(est_train) : store[est_val[j]].kind = store[est_train[j]].kind
        /\ Range(est_train) \cap Range(est_val) = {}

\* no step changes what a training metric and what a validation metric read
C14_Step ==
    Constructed =>
        \A a \in Range(est_train), b \in Range(est_val) :
            ~(store'[a] # store[a] /\ store'[b] # store[b])

\* C14: the validation metrics are as many as the training metrics and of
\* the same kinds position by position, no object belongs to both sets, and
\* whatever fit and evaluate have done before, an update or reset of the
\* metrics of one set leaves every metric of the other set as it was.
C14_IndependentMetricSets == []C14_State /\ [][C14_Step]_vars

C14_Witness ==
    /\ ev_pc = "batches" /\ ev_j = 1 /\ ev_metrics = est_val
    /\ Len(est_train) = 2
    /\ store[est_train[1]].num_inst = 2 /\ store[est_val[1]].num_inst = 1
    /\ store[est_val[2]].kind = "Loss" /\ store[est_val[2]].fed = "loss"

====
